---- MODULE Spec2Model ----
(***************************************************************************)
(* Model of the transparent-security analytics engines                    *)
(* (trans_sec/analytics/oinc.py) and of the device packet receiver        *)
(* (trans_sec/device_software/receive_packets.py).                        *)
(*                                                                         *)
(* Time is the wall clock in ticks, TicksPerSec ticks to the second.      *)
(* Every handler reads the clock once per frame.                          *)
(***************************************************************************)
EXTENDS Integers, Sequences, FiniteSets, TLC

VARIABLES
    variant,          \* which per-frame callback is installed
    packet_count,     \* PacketAnalytics.packet_count
    sample_interval,  \* PacketAnalytics.sample_interval
    int_hops,         \* receive_packets: --int-hops
    now,              \* wall clock, ticks
    count_map,        \* PacketAnalytics.count_map : key -> list of timestamps
    attack_map,       \* SimpleAE.attack_map : key -> time of the last SDN call
    tree,             \* Oinc.tree : set of nodes
    posted,           \* calls made to sdn_interface.post('attack', ...)
    pkt,              \* the frame handed to the callback last
    int_data,         \* result of the last extraction, <<>> = None / not run
    ret,              \* outcome of the last callback
    count,            \* count computed by the last SimpleAE.__process, -1 if none
    over,             \* the last callback entered the over-threshold branch
    seen,             \* history: key -> every observation time of that key
    nframes,          \* history: number of frames handled
    sniff_stop,       \* PacketAnalytics.sniff_stop : the Event is set
    pc,               \* where the capture loop (scapy sniff) stands
    bound,            \* the bind_layers calls made, as <<lower, upper>> pairs
    stops,            \* history: where the loop stood at each stop_sniffing call
    drop_table,       \* AggregateSwitch: the entries of data_drop_t
    report            \* history: the last add_attack / stop_attack call

vars == <<variant, packet_count, sample_interval, int_hops, now, count_map,
          attack_map, tree, posted, pkt, int_data, ret, count, over, seen,
          nframes, sniff_stop, pc, bound, stops, drop_table, report>>

----------------------------------------------------------------------------
(* Bounds of the model *)

MaxFrames == 4
StartTime == 1
TicksPerSec == 100
(* Gaps between frames: a tick, a second, three seconds. *)
Deltas == {1, TicksPerSec, 3 * TicksPerSec}
PacketCounts == {2, 3}
SampleIntervals == {2, 60}
HopCounts == 0 .. 3
MaxStops == 2

(* Program constants *)

IpProtoTPS == 253
MinRenotify == 1
OincMinCount == 3
OincMinPps == 100
OincWindow == 60
MaxHops == 3

----------------------------------------------------------------------------
(* Python values: str, int and None share one shape so that they compare. *)

PyStr(s) == [kind |-> "str", s |-> s, i |-> 0]
PyInt(i) == [kind |-> "int", s |-> "", i |-> i]
PyNone == [kind |-> "none", s |-> "", i |-> 0]

(* Optional results: <<>> is None, <<v>> is the value v. *)
None == <<>>
Some(v) == <<v>>

----------------------------------------------------------------------------
(* Frames.  A dissected frame is the set of layers scapy found in it plus *)
(* the field values those layers carry.                                    *)

AELayers == {"Ether", "IP", "SwitchINTHeaderMeta", "SwitchINTInspect",
             "GatewayINTHeaderMeta", "GatewayINTInspect", "UDP"}

FlowValues ==
    { [mac |-> "AA:BB", src |-> "10.0.0.1", dst |-> "10.0.0.2", dport |-> 5000,
       switch_id |-> 1, len |-> 64],
      [mac |-> "AA:BB", src |-> "10.0.0.1", dst |-> "10.0.0.2", dport |-> 5000,
       switch_id |-> 1, len |-> 128] }

MkFrame(layers, proto, v) ==
    [layers |-> layers, proto |-> proto, mac |-> v.mac, src |-> v.src,
     dst |-> v.dst, dport |-> v.dport, switch_id |-> v.switch_id,
     len |-> v.len, eth_src |-> "00:01", eth_dst |-> "00:02", sport |-> 4000,
     switch_id_2 |-> 2, switch_id_3 |-> 3]

FlowA == CHOOSE v \in FlowValues : v.len = 64

(* Frames offered to the analytics engines: telemetry frames of each flow, *)
(* a telemetry frame cut before the transport layer, a frame without a    *)
(* network layer and a plain UDP frame (IP protocol 17).                   *)
AEFrames ==
    { MkFrame(AELayers, IpProtoTPS, v) : v \in FlowValues }
    \cup { MkFrame(AELayers \ {"UDP"}, IpProtoTPS, FlowA),
           MkFrame({"Ether"}, 0, FlowA),
           MkFrame({"Ether", "IP", "UDP"}, 17, FlowA) }

(* A frame of another IP protocol that scapy dissects along the same      *)
(* bindings (they are unconditional).  Only SimpleAE looks at the         *)
(* protocol; to the other engines it is one more telemetry frame.         *)
OtherProtoFrame == MkFrame(AELayers, IpProtoTPS + 1, FlowA)

(* Every combination of layers, for the extraction function on its own. *)
AllAEFrames ==
    { MkFrame(ls, p, v) : ls \in SUBSET AELayers, p \in {IpProtoTPS, 17},
                          v \in FlowValues }

(* packet[layer].field : the value when the layer is present, None (the   *)
(* IndexError scapy raises) when it is not.                                *)
Layer(packet, layer, value) ==
    IF layer \in packet.layers THEN Some(value) ELSE None

----------------------------------------------------------------------------
(* extract_int_data *)

IntDataKeys == <<"devMac", "devAddr", "switchId", "dstAddr", "dstPort",
                 "protocol", "packetLen">>

(* The seven expressions of the dict(...) call, in evaluation order. *)
IntDataFields(packet) ==
    << Layer(packet, "GatewayINTInspect", PyStr(packet.mac)),
       Layer(packet, "IP", PyStr(packet.src)),
       Layer(packet, "SwitchINTInspect", PyInt(packet.switch_id)),
       Layer(packet, "IP", PyStr(packet.dst)),
       Layer(packet, "UDP", PyInt(packet.dport)),
       Layer(packet, "IP", PyInt(packet.proto)),
       Some(PyInt(packet.len)) >>

(* A dict holding the first n keys. *)
DictOf(fields, n) ==
    [k \in {IntDataKeys[j] : j \in 1 .. n} |->
        LET j == CHOOSE j \in 1 .. n : IntDataKeys[j] = k IN fields[j][1]]

extract_int_data_partial(packet) ==
    LET fields == IntDataFields(packet)
        bad == {j \in 1 .. 7 : fields[j] = None}
        n == IF bad = {} THEN 7
             ELSE (CHOOSE j \in bad : \A m \in bad : j <= m) - 1
    IN Some(DictOf(fields, n))

extract_int_data(packet) ==
    LET fields == IntDataFields(packet)
    IN IF \E j \in 1 .. 7 : fields[j] = None
       THEN None
       ELSE Some(DictOf(fields, 7))

(* dict.get(key): the value, or None for a key the dict does not hold. *)
DictGet(d, k) == IF k \in DOMAIN d THEN d[k] ELSE PyNone

----------------------------------------------------------------------------
(* hash(str(int_data)) : the text of the dict is the text of its values   *)
(* in key order; the hash folds that text into a machine word.            *)

HashMod == 2^16 - 15

StrCode(s) ==
    CASE s = "AA:BB" -> 43
      [] s = "10.0.0.1" -> 101
      [] s = "10.0.0.2" -> 102
      [] OTHER -> 7

PyCode(v) == IF v.kind = "int" THEN v.i ELSE StrCode(v.s)

Str(d) == [j \in 1 .. Len(IntDataKeys) |-> PyCode(DictGet(d, IntDataKeys[j]))]

RECURSIVE HashFrom(_, _, _)
HashFrom(text, j, h) ==
    IF j > Len(text) THEN h
    ELSE HashFrom(text, j + 1, (h * 31 + text[j]) % HashMod)

Hash(text) == HashFrom(text, 1, 7)

AttackMapKeyNoLen(d) == Hash(SubSeq(Str(d), 1, 6))

AttackMapKey(d) == Hash(Str(d))

----------------------------------------------------------------------------
(* SimpleAE.__process *)

(* list.remove(x): drops the first element equal to x. *)
ListRemove(l, x) ==
    LET j == CHOOSE j \in 1 .. Len(l) :
                 l[j] = x /\ \A m \in 1 .. (j - 1) : l[m] # x
    IN SubSeq(l, 1, j - 1) \o SubSeq(l, j + 1, Len(l))

(* "for eval_time in times": the list iterator holds an index into the    *)
(* list, re-reads the length before each step and advances by one after   *)
(* it, whatever the body did to the list.  i is that index, from 1.       *)
RECURSIVE ScanTimesGe(_, _, _, _, _)
ScanTimesGe(times, i, cnt, curr_time, interval) ==
    IF i > Len(times) THEN [times |-> times, count |-> cnt]
    ELSE IF curr_time - times[i] >= interval * TicksPerSec
         THEN ScanTimesGe(ListRemove(times, times[i]), i + 1, cnt, curr_time,
                          interval)
         ELSE ScanTimesGe(times, i + 1, cnt + 1, curr_time, interval)

RECURSIVE ScanTimes(_, _, _, _, _)
ScanTimes(times, i, cnt, curr_time, interval) ==
    IF i > Len(times) THEN [times |-> times, count |-> cnt]
    ELSE IF curr_time - times[i] > interval * TicksPerSec
         THEN ScanTimes(ListRemove(times, times[i]), i + 1, cnt, curr_time,
                        interval)
         ELSE ScanTimes(times, i + 1, cnt + 1, curr_time, interval)

(* "not self.count_map.get(key)": no entry, or an empty list. *)
TimesOf(cm, key) ==
    IF key \in DOMAIN cm /\ cm[key] # <<>> THEN cm[key] ELSE <<>>

AttackDictSwapped(d) ==
    [src_mac |-> d["devMac"], src_ip |-> d["dstAddr"], dst_ip |-> d["devAddr"],
     dst_port |-> d["dstPort"], packet_size |-> d["packetLen"],
     attack_type |-> PyStr("UDP Flood")]

AttackDict(d) ==
    [src_mac |-> d["devMac"], src_ip |-> d["devAddr"], dst_ip |-> d["dstAddr"],
     dst_port |-> d["dstPort"], packet_size |-> d["packetLen"],
     attack_type |-> PyStr("UDP Flood")]

(* "not last_attack or time.time() - last_attack > 1" *)
RenotifyDueGe(am, key, t) ==
    \/ key \notin DOMAIN am
    \/ am[key] = 0
    \/ t - am[key] >= MinRenotify * TicksPerSec

RenotifyDueOnce(am, key, t) ==
    \/ key \notin DOMAIN am
    \/ am[key] = 0

RenotifyDue(am, key, t) ==
    \/ key \notin DOMAIN am
    \/ am[key] = 0
    \/ t - am[key] > MinRenotify * TicksPerSec

(* f with f[k] = v, k added to the domain when it is new. *)
Put(f, k, v) == [x \in DOMAIN f \cup {k} |-> IF x = k THEN v ELSE f[x]]

(* One sdn_interface.post('attack', attack_dict); ok = it did not raise. *)
Post(d, key, t, ok) == [dict |-> d, key |-> key, at |-> t, ok |-> ok]

(* The whole of __process for the dict d at time t. *)
ProcessRollback(d, t, ok, cm, am, threshold, interval) ==
    LET key == AttackMapKey(d)
        scan == ScanTimes(Append(TimesOf(cm, key), t), 1, 0, t, interval)
        cm2 == Put(cm, key, scan.times)
        isOver == scan.count > threshold
        due == isOver /\ RenotifyDue(am, key, t)
    IN [count_map |-> IF due /\ ~ok THEN cm ELSE cm2,
        attack_map |-> IF due /\ ok THEN Put(am, key, t) ELSE am,
        posts |-> IF due THEN <<Post(AttackDict(d), key, t, ok)>> ELSE <<>>,
        ret |-> IF due /\ ok THEN "True" ELSE "False",
        count |-> scan.count, over |-> isOver, key |-> key]

ProcessNoStamp(d, t, ok, cm, am, threshold, interval) ==
    LET key == AttackMapKey(d)
        scan == ScanTimes(Append(TimesOf(cm, key), t), 1, 0, t, interval)
        cm2 == Put(cm, key, scan.times)
        isOver == scan.count > threshold
        due == isOver /\ RenotifyDue(am, key, t)
    IN [count_map |-> cm2,
        attack_map |-> IF due /\ ok THEN Put(am, key, t) ELSE am,
        posts |-> IF due THEN <<Post(AttackDict(d), key, t, ok)>> ELSE <<>>,
        ret |-> IF due /\ ok THEN "True" ELSE "False",
        count |-> scan.count, over |-> isOver, key |-> key]

Process(d, t, ok, cm, am, threshold, interval) ==
    LET key == AttackMapKey(d)
        scan == ScanTimes(Append(TimesOf(cm, key), t), 1, 0, t, interval)
        cm2 == Put(cm, key, scan.times)
        isOver == scan.count > threshold
        due == isOver /\ RenotifyDue(am, key, t)
    IN [count_map |-> cm2,
        attack_map |-> IF due THEN Put(am, key, t) ELSE am,
        posts |-> IF due THEN <<Post(AttackDict(d), key, t, ok)>> ELSE <<>>,
        ret |-> IF due /\ ok THEN "True" ELSE "False",
        count |-> scan.count,
        over |-> isOver,
        key |-> key]

----------------------------------------------------------------------------
(* Oinc: the anytree tree.  A node has an id, its parent's id and a name; *)
(* a 'count' leaf also carries value, time, pps (value over ticks) and    *)
(* attack.                                                                 *)

RootNode ==
    [id |-> 0, parent |-> -1, name |-> PyStr("root"), value |-> 0, time |-> 0,
     pps |-> <<0, 1>>, attack |-> FALSE]

(* search.findall_by_attr(node, value, name='name', maxlevel=2): the node *)
(* itself and its children, those whose name equals value.                *)
FindAllByAttr(t, node, value) ==
    {n \in t : (n.id = node.id \/ n.parent = node.id) /\ n.name = value}

(* One level of __parse_tree: nothing to search under a level that was    *)
(* not found; maxcount=1 makes more than one match a CountError.          *)
Level(t, above, value) ==
    IF above.node = None THEN [node |-> None, raised |-> above.raised]
    ELSE LET found == FindAllByAttr(t, above.node[1], value)
         IN IF Cardinality(found) > 1 THEN [node |-> None, raised |-> TRUE]
            ELSE IF found = {} THEN [node |-> None, raised |-> above.raised]
            ELSE [node |-> Some(CHOOSE n \in found : TRUE),
                  raised |-> above.raised]

(* __parse_tree: info is the Optional dict extract_int_data returned.     *)
ParseTree(t, info) ==
    IF info = None
    THEN [raised |-> TRUE, mac |-> None, src_ip |-> None, dst_ip |-> None,
          dst_port |-> None, packet_size |-> None]
    ELSE LET d == info[1]
             top == [node |-> Some(RootNode), raised |-> FALSE]
             mac == Level(t, top, DictGet(d, "srcMac"))
             src_ip == Level(t, mac, DictGet(d, "srcIP"))
             dst_ip == Level(t, src_ip, DictGet(d, "dstIP"))
             dst_port == Level(t, dst_ip, DictGet(d, "dstPort"))
             packet_size == Level(t, dst_port, DictGet(d, "packet_size"))
         IN [raised |-> packet_size.raised, mac |-> mac.node,
             src_ip |-> src_ip.node, dst_ip |-> dst_ip.node,
             dst_port |-> dst_port.node, packet_size |-> packet_size.node]

Children(t, node) == {n \in t : n.parent = node.id}

PacketWithMacClearing(t0, path, t, ok) ==
    LET kids == Children(t0, path.packet_size[1])
    IN IF kids = {} THEN [tree |-> t0, posts |-> <<>>, raised |-> TRUE]
       ELSE
        LET leaf == CHOOSE n \in kids : \A m \in kids : n.id <= m.id
            value == leaf.value + 1
            delta == t - leaf.time
            flag == /\ value > OincMinCount
                    /\ value * TicksPerSec > OincMinPps * delta
                    /\ ~leaf.attack
            reset == delta > OincWindow * TicksPerSec
            counted == [leaf EXCEPT !.value = value]
            done == [leaf EXCEPT
                        !.value = IF reset THEN 1 ELSE value,
                        !.time = IF reset THEN t ELSE leaf.time,
                        !.pps = <<value, delta>>,
                        !.attack = IF reset THEN FALSE ELSE leaf.attack \/ flag]
            dict == [src_mac |-> path.mac[1].name,
                     src_ip |-> path.src_ip[1].name,
                     dst_ip |-> path.dst_ip[1].name,
                     dst_port |-> path.dst_port[1].name,
                     packet_size |-> path.packet_size[1].name,
                     attack_type |-> PyStr("UDP Flood")]
        IN IF delta = 0
           THEN [tree |-> (t0 \ {leaf}) \cup {counted}, posts |-> <<>>,
                 raised |-> TRUE]
           ELSE [tree |-> (t0 \ {leaf}) \cup {done},
                 posts |-> IF flag THEN <<Post(dict, 0, t, ok)>> ELSE <<>>,
                 raised |-> FALSE]

(* __packet_with_mac on a fully resolved path at time t. *)
PacketWithMac(t0, path, t, ok) ==
    LET kids == Children(t0, path.packet_size[1])
    IN IF kids = {} THEN [tree |-> t0, posts |-> <<>>, raised |-> TRUE]
       ELSE
        LET leaf == CHOOSE n \in kids : \A m \in kids : n.id <= m.id
            value == leaf.value + 1
            delta == t - leaf.time
            flag == /\ value > OincMinCount
                    /\ value * TicksPerSec > OincMinPps * delta
                    /\ ~leaf.attack
            reset == delta > OincWindow * TicksPerSec
            counted == [leaf EXCEPT !.value = value]
            done == [leaf EXCEPT
                        !.value = IF reset THEN 1 ELSE value,
                        !.time = IF reset THEN t ELSE leaf.time,
                        !.pps = <<value, delta>>,
                        !.attack = leaf.attack \/ flag]
            dict == [src_mac |-> path.mac[1].name,
                     src_ip |-> path.src_ip[1].name,
                     dst_ip |-> path.dst_ip[1].name,
                     dst_port |-> path.dst_port[1].name,
                     packet_size |-> path.packet_size[1].name,
                     attack_type |-> PyStr("UDP Flood")]
        IN IF delta = 0
           THEN [tree |-> (t0 \ {leaf}) \cup {counted}, posts |-> <<>>,
                 raised |-> TRUE]
           ELSE [tree |-> (t0 \ {leaf}) \cup {done},
                 posts |-> IF flag THEN <<Post(dict, 0, t, ok)>> ELSE <<>>,
                 raised |-> FALSE]

(* Oinc.process_packet *)
OincProcess(p, t, ok, t0) ==
    LET info == extract_int_data(p)
        path == ParseTree(t0, info)
    IN IF path.raised
       THEN [tree |-> t0, posts |-> <<>>, ret |-> "raised", int_data |-> info]
       ELSE IF /\ path.mac # None /\ path.src_ip # None /\ path.dst_ip # None
               /\ path.dst_port # None /\ path.packet_size # None
            THEN LET r == PacketWithMac(t0, path, t, ok)
                 IN [tree |-> r.tree, posts |-> r.posts,
                     ret |-> IF r.raised THEN "raised" ELSE "None",
                     int_data |-> info]
            ELSE [tree |-> t0, posts |-> <<>>, ret |-> "None",
                  int_data |-> info]

----------------------------------------------------------------------------
(* SimpleAE.process_packet, IntLoggerAE.process_packet,                   *)
(* LoggerAE.handle_packet                                                  *)

NoProcess(cm, am, info) ==
    [count_map |-> cm, attack_map |-> am, posts |-> <<>>, ret |-> "False",
     count |-> -1, over |-> FALSE, key |-> -1, int_data |-> info]

(* A dict is true when it is not empty. *)
Truthy(info) == info # None /\ DOMAIN info[1] # {}

SimpleProcessPacketUnfiltered(p, ip_proto, t, ok, cm, am, threshold, interval) ==
    LET info == extract_int_data(p)
    IN IF Truthy(info)
       THEN [int_data |-> info] @@
            Process(info[1], t, ok, cm, am, threshold, interval)
       ELSE NoProcess(cm, am, info)

SimpleProcessPacket(p, ip_proto, t, ok, cm, am, threshold, interval) ==
    LET protocol == Layer(p, "IP", PyInt(p.proto))
    IN IF protocol = Some(PyInt(ip_proto))
       THEN LET info == extract_int_data(p)
            IN IF Truthy(info)
               THEN [int_data |-> info] @@
                    Process(info[1], t, ok, cm, am, threshold, interval)
               ELSE NoProcess(cm, am, info)
       ELSE NoProcess(cm, am, None)

IntLoggerProcessPacketNoReturn(p) ==
    [ret |-> "None", int_data |-> extract_int_data(p)]

IntLoggerProcessPacket(p) == [ret |-> "False", int_data |-> extract_int_data(p)]

LoggerHandlePacket(p) == [ret |-> "False", int_data |-> None]

----------------------------------------------------------------------------
(* receive_packets.py *)

(* The layers device_sniff binds, outermost first. *)
DevChain(h) ==
    IF h > 0
    THEN <<"Ether", "IP", "IntShim", "IntHeader">>
         \o (IF h = 1 THEN <<"SourceIntMeta", "UDP">> ELSE <<>>)
         \o (IF h = 2 THEN <<"IntMeta2", "SourceIntMeta", "UDP">> ELSE <<>>)
         \o (IF h = 3 THEN <<"IntMeta1", "IntMeta2", "SourceIntMeta", "UDP">>
             ELSE <<>>)
    ELSE <<"Ether", "IP", "UDP">>

Prefix(chain, n) == {chain[j] : j \in 1 .. n}

(* Frames the receiver can be handed under hop count h: a frame cut after *)
(* any layer of the bound chain, and a plain UDP frame.                    *)
DevFrames(h) ==
    { MkFrame(Prefix(DevChain(h), n), IF n = 1 THEN 0 ELSE IpProtoTPS, FlowA) :
        n \in 1 .. Len(DevChain(h)) }
    \cup { MkFrame({"Ether", "IP", "UDP"}, 17, FlowA) }

(* The reads of __log_packet's telemetry branch, in order; a missing      *)
(* layer raises.                                                           *)
DevReads(p, h) ==
    (IF h \in 1 .. 3
     THEN << Layer(p, "SourceIntMeta", PyStr(p.mac)),
             Layer(p, "SourceIntMeta", PyInt(p.switch_id)) >> ELSE <<>>)
    \o (IF h \in 2 .. 3 THEN << Layer(p, "IntMeta2", PyInt(p.switch_id_2)) >>
        ELSE <<>>)
    \o (IF h = 3 THEN << Layer(p, "IntMeta1", PyInt(p.switch_id_3)) >>
        ELSE <<>>)
    \o << Layer(p, "Ether", PyStr(p.eth_src)), Layer(p, "Ether", PyStr(p.eth_dst)),
          Layer(p, "IP", PyStr(p.src)), Layer(p, "IP", PyStr(p.dst)),
          Layer(p, "UDP", PyInt(p.sport)), Layer(p, "UDP", PyInt(p.dport)) >>

LogPacketShallow(p, h) ==
    IF "IP" \notin p.layers THEN [ret |-> "None", int_data |-> None]
    ELSE IF h > 0 /\ p.proto = IpProtoTPS
    THEN IF \E j \in 1 .. Len(DevReads(p, h)) : DevReads(p, h)[j] = None
         THEN [ret |-> "raised", int_data |-> None]
         ELSE [ret |-> "None",
               int_data |-> Some(
                 [eth_src_mac |-> PyStr(p.eth_src),
                  eth_dst_mac |-> PyStr(p.eth_dst),
                  src_ip |-> PyStr(p.src),
                  dst_ip |-> PyStr(p.dst),
                  mac1 |-> IF h \in 1 .. 3 THEN PyStr(p.mac) ELSE PyNone,
                  switch_id_1 |-> IF h \in 1 .. 3 THEN PyInt(p.switch_id)
                                  ELSE PyNone,
                  switch_id_2 |-> IF h = 3 THEN PyInt(p.switch_id_2)
                                  ELSE PyNone,
                  switch_id_3 |-> IF h = 3 THEN PyInt(p.switch_id_3)
                                  ELSE PyNone,
                  src_port |-> PyInt(p.sport),
                  dst_port |-> PyInt(p.dport),
                  packetLen |-> PyInt(p.len)])]
    ELSE [ret |-> "None", int_data |-> None]

LogPacket(p, h) ==
    IF "IP" \notin p.layers THEN [ret |-> "None", int_data |-> None]
    ELSE IF h > 0 /\ p.proto = IpProtoTPS
    THEN IF \E j \in 1 .. Len(DevReads(p, h)) : DevReads(p, h)[j] = None
         THEN [ret |-> "raised", int_data |-> None]
         ELSE [ret |-> "None",
               int_data |-> Some(
                 [eth_src_mac |-> PyStr(p.eth_src),
                  eth_dst_mac |-> PyStr(p.eth_dst),
                  src_ip |-> PyStr(p.src),
                  dst_ip |-> PyStr(p.dst),
                  mac1 |-> IF h \in 1 .. 3 THEN PyStr(p.mac) ELSE PyNone,
                  switch_id_1 |-> IF h \in 1 .. 3 THEN PyInt(p.switch_id)
                                  ELSE PyNone,
                  switch_id_2 |-> IF h \in 2 .. 3 THEN PyInt(p.switch_id_2)
                                  ELSE PyNone,
                  switch_id_3 |-> IF h = 3 THEN PyInt(p.switch_id_3)
                                  ELSE PyNone,
                  src_port |-> PyInt(p.sport),
                  dst_port |-> PyInt(p.dport),
                  packetLen |-> PyInt(p.len)])]
    ELSE [ret |-> "None", int_data |-> None]

(* The bind_layers calls of device_sniff, in order. *)
DevBindings(h) ==
    IF h > 0
    THEN << <<"Ether", "IP">>, <<"IP", "IntShim">>, <<"IntShim", "IntHeader">> >>
         \o (IF h = 1
             THEN << <<"IntHeader", "SourceIntMeta">>, <<"SourceIntMeta", "UDP">> >>
             ELSE << >>)
         \o (IF h = 2
             THEN << <<"IntHeader", "IntMeta2">>, <<"IntMeta2", "SourceIntMeta">>,
                     <<"SourceIntMeta", "UDP">> >>
             ELSE << >>)
         \o (IF h = 3
             THEN << <<"IntHeader", "IntMeta1">>, <<"IntMeta1", "IntMeta2">>,
                     <<"IntMeta2", "SourceIntMeta">>, <<"SourceIntMeta", "UDP">> >>
             ELSE << >>)
    ELSE << <<"Ether", "IP">>, <<"IP", "UDP">> >>

(* The bind_layers calls of PacketAnalytics.start_sniffing, in order. *)
AEBindings ==
    << <<"Ether", "IP">>, <<"IP", "SwitchINTHeaderMeta">>,
       <<"SwitchINTHeaderMeta", "SwitchINTInspect">>,
       <<"SwitchINTInspect", "GatewayINTHeaderMeta">>,
       <<"GatewayINTHeaderMeta", "GatewayINTInspect">>,
       <<"GatewayINTInspect", "UDP">> >>

----------------------------------------------------------------------------
(* The state machine: one action per per-frame callback, the capture     *)
(* loop running and waiting for its next frame.                           *)

Engines == {"Oinc", "SimpleAE", "IntLoggerAE", "LoggerAE"}

Init ==
    /\ \/ /\ variant = "SimpleAE"
          /\ packet_count \in PacketCounts
          /\ sample_interval \in SampleIntervals
          /\ int_hops = 0
       \/ /\ variant \in Engines \ {"SimpleAE"}
          /\ packet_count = 100
          /\ sample_interval \in SampleIntervals
          /\ int_hops = 0
       \/ /\ variant = "device"
          /\ packet_count = 100
          /\ sample_interval = 60
          /\ int_hops \in HopCounts
    /\ now = StartTime
    /\ count_map = << >>
    /\ attack_map = << >>
    /\ tree = {RootNode}
    /\ posted = << >>
    /\ pkt = None
    /\ int_data = None
    /\ ret = "None"
    /\ count = -1
    /\ over = FALSE
    /\ seen = << >>
    /\ nframes = 0
    /\ sniff_stop = FALSE
    /\ pc = "wait"
    /\ bound = IF variant = "device" THEN DevBindings(int_hops) ELSE AEBindings
    /\ stops = << >>
    /\ drop_table = {}
    /\ report = None

(* History: the times at which each flow record was extracted. *)
Seen(h, info, t) ==
    IF info = None THEN h
    ELSE LET key == AttackMapKey(info[1])
         IN Put(h, key, Append(IF key \in DOMAIN h THEN h[key] ELSE <<>>, t))

(* A frame arrives d ticks after the previous one. *)
Arrive(p, d) ==
    /\ nframes' = nframes + 1
    /\ now' = now + d
    /\ pkt' = Some(p)
    /\ UNCHANGED <<variant, packet_count, sample_interval, int_hops,
                   sniff_stop, pc, bound, stops,
                   drop_table, report>>

SimpleAEHandlePacket ==
    /\ variant = "SimpleAE"
    /\ nframes < MaxFrames
    /\ \E p \in AEFrames \cup {OtherProtoFrame}, d \in Deltas, ok \in BOOLEAN :
       \E r \in {SimpleProcessPacket(p, IpProtoTPS, now + d, ok, count_map,
                                     attack_map, packet_count, sample_interval)} :
            /\ Arrive(p, d)
            /\ count_map' = r.count_map
            /\ attack_map' = r.attack_map
            /\ posted' = posted \o r.posts
            /\ int_data' = r.int_data
            /\ ret' = r.ret
            /\ count' = r.count
            /\ over' = r.over
            /\ seen' = IF r.count >= 0 THEN Seen(seen, r.int_data, now + d)
                       ELSE seen
            /\ UNCHANGED tree

OincHandlePacket ==
    /\ variant = "Oinc"
    /\ nframes < MaxFrames
    /\ \E p \in AEFrames, d \in Deltas, ok \in BOOLEAN :
       \E r \in {OincProcess(p, now + d, ok, tree)} :
            /\ Arrive(p, d)
            /\ tree' = r.tree
            /\ posted' = posted \o r.posts
            /\ int_data' = r.int_data
            /\ ret' = r.ret
            /\ seen' = Seen(seen, r.int_data, now + d)
            /\ UNCHANGED <<count_map, attack_map, count, over>>

IntLoggerHandlePacket ==
    /\ variant = "IntLoggerAE"
    /\ nframes < MaxFrames
    /\ \E p \in AEFrames, d \in Deltas :
       \E r \in {IntLoggerProcessPacket(p)} :
            /\ Arrive(p, d)
            /\ int_data' = r.int_data
            /\ ret' = r.ret
            /\ UNCHANGED <<count_map, attack_map, tree, posted, count, over,
                           seen>>

LoggerAEHandlePacket ==
    /\ variant = "LoggerAE"
    /\ nframes < MaxFrames
    /\ \E p \in AEFrames, d \in Deltas :
       \E r \in {LoggerHandlePacket(p)} :
            /\ Arrive(p, d)
            /\ int_data' = r.int_data
            /\ ret' = r.ret
            /\ UNCHANGED <<count_map, attack_map, tree, posted, count, over,
                           seen>>

DeviceLogPacket ==
    /\ variant = "device"
    /\ nframes < MaxFrames
    /\ \E p \in DevFrames(int_hops), d \in Deltas :
       \E r \in {LogPacket(p, int_hops)} :
            /\ Arrive(p, d)
            /\ int_data' = r.int_data
            /\ ret' = r.ret
            /\ UNCHANGED <<count_map, attack_map, tree, posted, count, over,
                           seen>>

Next ==
    \/ SimpleAEHandlePacket
    \/ OincHandlePacket
    \/ IntLoggerHandlePacket
    \/ LoggerAEHandlePacket
    \/ DeviceLogPacket

Spec == Init /\ [][Next]_vars

----------------------------------------------------------------------------
(* The extraction function on its own, over every combination of layers. *)

InitExtract ==
    /\ variant = "IntLoggerAE"
    /\ packet_count = 100
    /\ sample_interval = 60
    /\ int_hops = 0
    /\ now = StartTime
    /\ count_map = << >>
    /\ attack_map = << >>
    /\ tree = {RootNode}
    /\ posted = << >>
    /\ pkt = None
    /\ int_data = None
    /\ ret = "None"
    /\ count = -1
    /\ over = FALSE
    /\ seen = << >>
    /\ nframes = 0
    /\ sniff_stop = FALSE
    /\ pc = "wait"
    /\ bound = AEBindings
    /\ stops = << >>
    /\ drop_table = {}
    /\ report = None

ExtractIntData ==
    /\ \E p \in AllAEFrames :
         /\ pkt' = Some(p)
         /\ int_data' = extract_int_data(p)
    /\ UNCHANGED <<variant, packet_count, sample_interval, int_hops, now,
                   count_map, attack_map, tree, posted, ret, count, over, seen,
                   nframes, sniff_stop, pc, bound, stops,
                   drop_table, report>>

NextExtract == ExtractIntData

SpecExtract == InitExtract /\ [][NextExtract]_vars

----------------------------------------------------------------------------
(* The two counting functions side by side: SimpleAE.process_packet on    *)
(* its frames, and Oinc.__packet_with_mac on its own, its arguments drawn *)
(* from a tree that holds the path of one flow and its 'count' leaf.      *)

TelemetryFrame == MkFrame(AELayers, IpProtoTPS, FlowA)

(* The nodes of one flow's path, root to leaf. *)
LeafTree ==
    LET node(i, name) == [RootNode EXCEPT !.id = i, !.parent = i - 1,
                                          !.name = name]
    IN {RootNode, node(1, PyStr(FlowA.mac)), node(2, PyStr(FlowA.src)),
        node(3, PyStr(FlowA.dst)), node(4, PyInt(FlowA.dport)),
        node(5, PyInt(FlowA.len)),
        [node(6, PyStr("count")) EXCEPT !.value = 1, !.time = StartTime]}

(* The five nodes process_packet hands to __packet_with_mac. *)
LeafPath(t) ==
    LET at(i) == Some(CHOOSE n \in t : n.id = i)
    IN [raised |-> FALSE, mac |-> at(1), src_ip |-> at(2), dst_ip |-> at(3),
        dst_port |-> at(4), packet_size |-> at(5)]

(* Gaps between two observations of the leaf: those of Deltas and one     *)
(* longer than the leaf's window.                                          *)
LeafDeltas == Deltas \cup {(OincWindow + 1) * TicksPerSec}

InitCounters ==
    /\ \/ /\ variant = "SimpleAE"
          /\ packet_count \in PacketCounts
          /\ tree = {RootNode}
       \/ /\ variant = "Oinc"
          /\ packet_count = 100
          /\ tree = LeafTree
    /\ sample_interval \in SampleIntervals
    /\ int_hops = 0
    /\ now = StartTime
    /\ count_map = << >>
    /\ attack_map = << >>
    /\ posted = << >>
    /\ pkt = None
    /\ int_data = None
    /\ ret = "None"
    /\ count = -1
    /\ over = FALSE
    /\ seen = << >>
    /\ nframes = 0
    /\ sniff_stop = FALSE
    /\ pc = "wait"
    /\ bound = AEBindings
    /\ stops = << >>
    /\ drop_table = {}
    /\ report = None

OincPacketWithMac ==
    /\ variant = "Oinc"
    /\ nframes < MaxFrames
    /\ \E d \in LeafDeltas, ok \in BOOLEAN :
       \E r \in {PacketWithMac(tree, LeafPath(tree), now + d, ok)} :
            /\ Arrive(TelemetryFrame, d)
            /\ tree' = r.tree
            /\ posted' = posted \o r.posts
            /\ int_data' = extract_int_data(TelemetryFrame)
            /\ ret' = IF r.raised THEN "raised" ELSE "None"
            /\ seen' = Seen(seen, extract_int_data(TelemetryFrame), now + d)
            /\ UNCHANGED <<count_map, attack_map, count, over>>

NextCounters ==
    \/ SimpleAEHandlePacket
    \/ OincPacketWithMac

SpecCounters == InitCounters /\ [][NextCounters]_vars

----------------------------------------------------------------------------
(* The capture loop: start_sniffing / device_sniff, scapy's sniff calling *)
(* prn on each frame and then stop_filter, and stop_sniffing called from  *)
(* another thread at any moment.                                           *)
(*   pc: "idle" not started, "wait" blocked until a frame arrives, "prn"  *)
(*   inside the callback, "filter" the callback returned and stop_filter  *)
(*   is about to run, "stopped" sniff returned, "raised" an exception     *)
(*   left the call.                                                        *)

ConfigHops == 0 .. MaxHops + 1

(* The loop does not look at the clock: its frames come one tick apart. *)
SniffDeltas == {1}

InitSniff ==
    /\ \/ /\ variant = "SimpleAE"
          /\ packet_count \in PacketCounts
          /\ int_hops = 0
       \/ /\ variant \in Engines \ {"SimpleAE"}
          /\ packet_count = 100
          /\ int_hops = 0
       \/ /\ variant = "device"
          /\ packet_count = 100
          /\ int_hops \in ConfigHops
    /\ sample_interval = 60
    /\ now = StartTime
    /\ count_map = << >>
    /\ attack_map = << >>
    /\ tree = {RootNode}
    /\ posted = << >>
    /\ pkt = None
    /\ int_data = None
    /\ ret = "None"
    /\ count = -1
    /\ over = FALSE
    /\ seen = << >>
    /\ nframes = 0
    /\ sniff_stop = FALSE
    /\ pc = "idle"
    /\ bound = << >>
    /\ stops = << >>
    /\ drop_table = {}
    /\ report = None

(* prn: handle_packet of the engine's class, __log_packet for the device. *)
HandlePacket(v, h, p, t, ok, cm, am, t0, threshold, interval) ==
    LET keep == [count_map |-> cm, attack_map |-> am, tree |-> t0,
                 posts |-> << >>, count |-> -1, over |-> FALSE]
    IN CASE v = "SimpleAE" ->
                SimpleProcessPacket(p, IpProtoTPS, t, ok, cm, am, threshold,
                                    interval) @@ keep
         [] v = "Oinc" -> OincProcess(p, t, ok, t0) @@ keep
         [] v = "IntLoggerAE" -> IntLoggerProcessPacket(p) @@ keep
         [] v = "LoggerAE" -> LoggerHandlePacket(p) @@ keep
         [] v = "device" -> LogPacket(p, h) @@ keep

StartSniffingClears ==
    /\ variant \in Engines
    /\ pc \in {"idle", "stopped"}
    /\ bound' = AEBindings
    /\ pc' = "wait"
    /\ sniff_stop' = FALSE
    /\ UNCHANGED <<variant, packet_count, sample_interval, int_hops, now,
                   count_map, attack_map, tree, posted, pkt, int_data, ret,
                   count, over, seen, nframes, stops,
                   drop_table, report>>

StartSniffing ==
    /\ variant \in Engines
    /\ pc \in {"idle", "stopped"}
    /\ bound' = AEBindings
    /\ pc' = "wait"
    /\ UNCHANGED <<variant, packet_count, sample_interval, int_hops, now,
                   count_map, attack_map, tree, posted, pkt, int_data, ret,
                   count, over, seen, nframes, sniff_stop, stops,
                   drop_table, report>>

DeviceSniffNoLimit ==
    /\ variant = "device"
    /\ pc = "idle"
    /\ bound' = DevBindings(int_hops)
    /\ pc' = "wait"
    /\ UNCHANGED <<variant, packet_count, sample_interval, int_hops, now,
                   count_map, attack_map, tree, posted, pkt, int_data, ret,
                   count, over, seen, nframes, sniff_stop, stops,
                   drop_table, report>>

DeviceSniff ==
    /\ variant = "device"
    /\ pc = "idle"
    /\ bound' = DevBindings(int_hops)
    /\ pc' = IF int_hops > MaxHops THEN "raised" ELSE "wait"
    /\ UNCHANGED <<variant, packet_count, sample_interval, int_hops, now,
                   count_map, attack_map, tree, posted, pkt, int_data, ret,
                   count, over, seen, nframes, sniff_stop, stops,
                   drop_table, report>>

(* sniff receives the next frame and calls prn on it. *)
SniffRecv ==
    /\ pc = "wait"
    /\ nframes < MaxFrames
    /\ \E p \in (IF variant = "device" THEN DevFrames(int_hops) ELSE AEFrames),
          d \in SniffDeltas :
            /\ pkt' = Some(p)
            /\ now' = now + d
    /\ nframes' = nframes + 1
    /\ pc' = "prn"
    /\ UNCHANGED <<variant, packet_count, sample_interval, int_hops,
                   count_map, attack_map, tree, posted, int_data, ret, count,
                   over, seen, sniff_stop, bound, stops,
                   drop_table, report>>

SniffPrnPreempted ==
    /\ pc = "prn"
    /\ \E ok \in BOOLEAN :
       \E r \in {HandlePacket(variant, int_hops, pkt[1], now, ok, count_map,
                              attack_map, tree, packet_count, sample_interval)} :
            /\ count_map' = IF sniff_stop THEN count_map ELSE r.count_map
            /\ attack_map' = IF sniff_stop THEN attack_map ELSE r.attack_map
            /\ tree' = r.tree
            /\ posted' = IF sniff_stop THEN posted ELSE posted \o r.posts
            /\ int_data' = r.int_data
            /\ ret' = r.ret
            /\ count' = r.count
            /\ over' = r.over
            /\ seen' = seen
            /\ pc' = IF sniff_stop THEN "stopped" ELSE "filter"
    /\ UNCHANGED <<variant, packet_count, sample_interval, int_hops, now, pkt,
                   nframes, sniff_stop, bound, stops,
                   drop_table, report>>

(* The callback runs on the frame received and returns, or raises out of  *)
(* sniff.  The device's sniff has no stop_filter.                          *)
SniffPrn ==
    /\ pc = "prn"
    /\ \E ok \in BOOLEAN :
       \E r \in {HandlePacket(variant, int_hops, pkt[1], now, ok, count_map,
                              attack_map, tree, packet_count, sample_interval)} :
            /\ count_map' = r.count_map
            /\ attack_map' = r.attack_map
            /\ tree' = r.tree
            /\ posted' = posted \o r.posts
            /\ int_data' = r.int_data
            /\ ret' = r.ret
            /\ count' = r.count
            /\ over' = r.over
            /\ seen' = IF variant = "Oinc" \/ r.count >= 0
                       THEN Seen(seen, r.int_data, now) ELSE seen
            /\ pc' = IF r.ret = "raised" THEN "raised"
                     ELSE IF variant = "device" THEN "wait" ELSE "filter"
    /\ UNCHANGED <<variant, packet_count, sample_interval, int_hops, now, pkt,
                   nframes, sniff_stop, bound, stops,
                   drop_table, report>>

(* stop_filter: lambda p: self.sniff_stop.is_set() *)
SniffStopFilter ==
    /\ pc = "filter"
    /\ pc' = IF sniff_stop THEN "stopped" ELSE "wait"
    /\ UNCHANGED <<variant, packet_count, sample_interval, int_hops, now,
                   count_map, attack_map, tree, posted, pkt, int_data, ret,
                   count, over, seen, nframes, sniff_stop, bound, stops,
                   drop_table, report>>

StopSniffingToggle ==
    /\ variant \in Engines
    /\ Len(stops) < MaxStops
    /\ sniff_stop' = ~sniff_stop
    /\ stops' = Append(stops, pc)
    /\ UNCHANGED <<variant, packet_count, sample_interval, int_hops, now,
                   count_map, attack_map, tree, posted, pkt, int_data, ret,
                   count, over, seen, nframes, pc, bound,
                   drop_table, report>>

(* stop_sniffing, whatever the loop is doing. *)
StopSniffing ==
    /\ variant \in Engines
    /\ Len(stops) < MaxStops
    /\ sniff_stop' = TRUE
    /\ stops' = Append(stops, pc)
    /\ UNCHANGED <<variant, packet_count, sample_interval, int_hops, now,
                   count_map, attack_map, tree, posted, pkt, int_data, ret,
                   count, over, seen, nframes, pc, bound,
                   drop_table, report>>

NextSniff ==
    \/ StartSniffing
    \/ DeviceSniff
    \/ SniffRecv
    \/ SniffPrn
    \/ SniffStopFilter
    \/ StopSniffing

SpecSniff == InitSniff /\ [][NextSniff]_vars

----------------------------------------------------------------------------
(* aggregate_switch.py: add_attack and stop_attack on the data_drop_t     *)
(* table.  An attack report is the kwargs dict the controller passes on.  *)

AttackReports ==
    [src_mac : {"AA:BB", "CC:DD"},
     dst_ip : {"10.0.0.2", "10.0.0.3", "2001:db8::2", "nowhere"},
     dst_port : {PyInt(5000), PyStr("5000"), PyInt(5001)}]

(* ipaddress.ip_address(a).version; 0 stands for the ValueError raised on *)
(* a string that is no address.                                            *)
IpVersion(a) ==
    CASE a \in {"10.0.0.2", "10.0.0.3"} -> 4
      [] a = "2001:db8::2" -> 6
      [] OTHER -> 0

(* str(ip.exploded) *)
Exploded(a) ==
    IF a = "2001:db8::2" THEN "2001:0db8:0000:0000:0000:0000:0000:0002" ELSE a

(* int(x) of an int or of a decimal string *)
IntOf(v) ==
    IF v.kind = "int" THEN v.i ELSE IF v.s = "5000" THEN 5000 ELSE 0

(* __parse_attack *)
ParseAttack(kwargs) ==
    LET version == IpVersion(kwargs.dst_ip)
    IN [raised |-> version = 0,
        action_name |-> "data_drop",
        dst_ipv4 |-> IF version = 4 THEN PyStr(Exploded(kwargs.dst_ip))
                     ELSE PyNone,
        dst_ipv6 |-> IF version = 6 THEN PyStr(Exploded(kwargs.dst_ip))
                     ELSE PyNone,
        dst_port_key |-> "metadata.dst_port"]

(* The match_fields dict add_attack and stop_attack build. *)
MatchFields(kwargs, dst_port_key) ==
    [k \in {"metadata.src_mac", "metadata.dst_ipv4", "metadata.dst_ipv6",
            dst_port_key} |->
        IF k = dst_port_key THEN PyInt(IntOf(kwargs.dst_port))
        ELSE PyStr(kwargs.src_mac)]

(* insert_p4_table_entry / delete_p4_table_entry of P4RuntimeSwitch: the  *)
(* table holds one entry per match key.                                    *)
InsertEntry(table, name, action, match, params) ==
    {e \in table : ~(e.table_name = name /\ e.match_fields = match)}
    \cup {[table_name |-> name, action_name |-> action, match_fields |-> match,
           action_params |-> params]}

DeleteEntry(table, name, match) ==
    {e \in table : ~(e.table_name = name /\ e.match_fields = match)}

InitSwitch ==
    /\ variant = "AggregateSwitch"
    /\ packet_count = 100
    /\ sample_interval = 60
    /\ int_hops = 0
    /\ now = StartTime
    /\ count_map = << >>
    /\ attack_map = << >>
    /\ tree = {RootNode}
    /\ posted = << >>
    /\ pkt = None
    /\ int_data = None
    /\ ret = "None"
    /\ count = -1
    /\ over = FALSE
    /\ seen = << >>
    /\ nframes = 0
    /\ sniff_stop = FALSE
    /\ pc = "idle"
    /\ bound = << >>
    /\ stops = << >>
    /\ drop_table = {}
    /\ report = None

AddAttack ==
    /\ \E kwargs \in AttackReports :
       \E r \in {ParseAttack(kwargs)} :
            /\ drop_table' =
                  IF r.raised THEN drop_table
                  ELSE InsertEntry(drop_table, "data_drop_t", r.action_name,
                                   MatchFields(kwargs, r.dst_port_key),
                                   [device |-> "device_id"])
            /\ report' = Some([op |-> "add_attack", kwargs |-> kwargs,
                               raised |-> r.raised])
    /\ UNCHANGED <<variant, packet_count, sample_interval, int_hops, now,
                   count_map, attack_map, tree, posted, pkt, int_data, ret,
                   count, over, seen, nframes, sniff_stop, pc, bound, stops>>

StopAttack ==
    /\ \E kwargs \in AttackReports :
       \E r \in {ParseAttack(kwargs)} :
            /\ drop_table' =
                  IF r.raised THEN drop_table
                  ELSE DeleteEntry(drop_table, "data_drop_t",
                                   MatchFields(kwargs, r.dst_port_key))
            /\ report' = Some([op |-> "stop_attack", kwargs |-> kwargs,
                               raised |-> r.raised])
    /\ UNCHANGED <<variant, packet_count, sample_interval, int_hops, now,
                   count_map, attack_map, tree, posted, pkt, int_data, ret,
                   count, over, seen, nframes, sniff_stop, pc, bound, stops>>

NextSwitch ==
    \/ AddAttack
    \/ StopAttack

SpecSwitch == InitSwitch /\ [][NextSwitch]_vars

----------------------------------------------------------------------------
(* Properties *)

(* The key and the observation history of the record extracted last. *)
LastKey == AttackMapKey(int_data[1])
LastSeen == seen[LastKey]
Observed == variant = "SimpleAE" /\ count >= 0

(* Observations of the last key no older than sample_interval. *)
InWindow ==
    {j \in 1 .. Len(LastSeen) :
        now - LastSeen[j] <= sample_interval * TicksPerSec}

PostsOf(key) == {j \in 1 .. Len(posted) : posted[j].key = key}

(* C1: when all k observations of a key made so far lie within            *)
(* sample_interval seconds of the k-th, the k-th observation computes     *)
(* count_in_window = k.                                                    *)
C1_CountIsN ==
    (Observed /\ InWindow = 1 .. Len(LastSeen)) => count = Len(LastSeen)

C1_Witness ==
    /\ Observed
    /\ Len(LastSeen) = 3
    /\ now - LastSeen[1] = sample_interval * TicksPerSec
    /\ count = 3

(* C2: an observation enters the over-threshold branch if and only if the *)
(* number of observations of its key within the last sample_interval      *)
(* seconds, the current one included, is greater than packet_count.       *)
C2_OverIffWindowCount ==
    Observed => (over <=> Cardinality(InWindow) > packet_count)

(* C3: two notifier calls for one key are more than                        *)
(* min_renotify_interval_seconds apart; with packet_count = 3, four or    *)
(* more identical records within one second cause exactly one call.       *)
C3_Debounce ==
    /\ \A i, j \in 1 .. Len(posted) :
         (i < j /\ posted[i].key = posted[j].key)
            => posted[j].at - posted[i].at > MinRenotify * TicksPerSec
    /\ (/\ Observed
        /\ packet_count = 3
        /\ Len(LastSeen) >= 4
        /\ now - LastSeen[1] <= TicksPerSec)
       => Cardinality(PostsOf(LastKey)) = 1

C3_Witness ==
    /\ Observed
    /\ over
    /\ ret = "False"
    /\ Cardinality(PostsOf(LastKey)) = 1
    /\ \A j \in PostsOf(LastKey) : posted[j].ok /\ now - posted[j].at = TicksPerSec

(* The last step was an over-threshold observation of a key that had no   *)
(* last notification time, or one more than a second old.                  *)
DueStep ==
    /\ variant = "SimpleAE"
    /\ over'
    /\ LET key == AttackMapKey(int_data'[1])
       IN \/ key \notin DOMAIN attack_map
          \/ now' - attack_map[key] > MinRenotify * TicksPerSec

NotifiedOnce ==
    /\ attack_map'[AttackMapKey(int_data'[1])] = now'
    /\ Len(posted') = Len(posted) + 1
    /\ posted'[Len(posted')].key = AttackMapKey(int_data'[1])

Echo(p) ==
    [src_mac |-> PyStr(p.mac), src_ip |-> PyStr(p.src), dst_ip |-> PyStr(p.dst),
     dst_port |-> PyInt(p.dport), packet_size |-> PyInt(p.len),
     attack_type |-> PyStr("UDP Flood")]

(* C5: with packet_count = 2 and sample_interval = 60, three frames with  *)
(* identical content within 5 seconds produce exactly one post, and every *)
(* post echoes the triggering record with attack_type 'UDP Flood'.        *)
C5_EndToEnd ==
    /\ (/\ Observed
        /\ packet_count = 2
        /\ sample_interval = 60
        /\ nframes = 3
        /\ Len(LastSeen) = 3
        /\ now - LastSeen[1] <= 5 * TicksPerSec)
       => Len(posted) = 1
    /\ \A j \in 1 .. Len(posted) :
         \E p \in AEFrames :
            /\ extract_int_data(p) # None
            /\ AttackMapKey(extract_int_data(p)[1]) = posted[j].key
            /\ posted[j].dict = Echo(p)

C5_Witness ==
    /\ Observed
    /\ packet_count = 2
    /\ sample_interval = 60
    /\ nframes = 3
    /\ Len(LastSeen) = 3
    /\ Len(posted) = 1
    /\ ret = "True"

(* C6: when every earlier observation of a key is older than              *)
(* sample_interval seconds, the next observation computes                  *)
(* count_in_window = 1.                                                    *)
C6_StaleExcluded ==
    (Observed /\ Len(LastSeen) >= 2 /\ InWindow = {Len(LastSeen)}) => count = 1

(* The leaves of the path mac -> src IP -> dst IP -> dst port -> packet   *)
(* length for the record d.                                                *)
PathLeaves(t, d) ==
    {n \in t :
        \E m, s, a, q, l \in t :
           /\ m.parent = 0 /\ m.name = d["devMac"]
           /\ s.parent = m.id /\ s.name = d["devAddr"]
           /\ a.parent = s.id /\ a.name = d["dstAddr"]
           /\ q.parent = a.id /\ q.name = d["dstPort"]
           /\ l.parent = q.id /\ l.name = d["packetLen"]
           /\ n.parent = l.id}

(* C7: after 4 observations of one record within a second, at a rate      *)
(* above 100 per second, the leaf's attack flag is true and the notifier  *)
(* has been invoked.                                                       *)
C7_FlagAfterFour ==
    (/\ variant = "Oinc"
     /\ int_data # None
     /\ Len(LastSeen) >= 4
     /\ LastSeen[4] - LastSeen[1] <= TicksPerSec
     /\ 4 * TicksPerSec > OincMinPps * (LastSeen[4] - LastSeen[1]))
    => /\ \E n \in PathLeaves(tree, int_data[1]) : n.attack
       /\ posted # << >>

(* C8: the first observation of a record creates its path and leaf; a     *)
(* second observation of the same five values finds the leaf and          *)
(* increments its count.                                                   *)
C8_PathCreated ==
    (variant = "Oinc" /\ int_data # None)
    => \E n \in PathLeaves(tree, int_data[1]) :
          Len(LastSeen) >= 2 => n.value >= 2

RequiredLayers == {"GatewayINTInspect", "IP", "SwitchINTInspect", "UDP"}

(* C9: extract_int_data returns either a dict with all seven fields set   *)
(* or None, and None whenever a required layer is missing.                 *)
C9_AllOrNothing ==
    pkt # None =>
       /\ \/ int_data = None
          \/ /\ DOMAIN int_data[1] = {IntDataKeys[j] : j \in 1 .. 7}
             /\ \A k \in DOMAIN int_data[1] : int_data[1][k] # PyNone
       /\ ~(RequiredLayers \subseteq pkt[1].layers) => int_data = None
       /\ RequiredLayers \subseteq pkt[1].layers => int_data # None

C9_Witness ==
    /\ pkt # None
    /\ pkt[1].layers = AELayers \ {"UDP"}
    /\ int_data = None

(* C10: no callback raises on a frame that cannot be decoded or that      *)
(* yields no record.                                                       *)
C10_NoRaise ==
    LET chain == DevChain(int_hops)
        needed == IF variant = "device" THEN Prefix(chain, Len(chain))
                  ELSE RequiredLayers
    IN (pkt # None /\ ~(needed \subseteq pkt[1].layers)) => ret # "raised"

(* C11: a notifier call that raises leaves the counters as a call that   *)
(* succeeded would have left them: the per-key timestamp list of SimpleAE *)
(* and the leaf of Oinc are those of the successful call, nothing is      *)
(* raised out of process_packet, the notifier is called once and not      *)
(* again, and the next observation of the key is appended as usual.       *)
FailedPost == Len(posted') > Len(posted) /\ ~posted'[Len(posted')].ok

AfterFailedPost ==
    posted # << >> /\ ~posted[Len(posted)].ok /\ posted[Len(posted)].at = now

C11_FailureKeepsCounters ==
    [][/\ FailedPost =>
            /\ Len(posted') = Len(posted) + 1
            /\ ret' # "raised"
            /\ variant = "SimpleAE" =>
                   count_map' = Process(int_data'[1], now', TRUE, count_map,
                                        attack_map, packet_count,
                                        sample_interval).count_map
            /\ variant = "Oinc" =>
                   tree' = PacketWithMac(tree, LeafPath(tree), now', TRUE).tree
       /\ (AfterFailedPost /\ variant = "SimpleAE" /\ count' >= 0) =>
            LET times == count_map'[AttackMapKey(int_data'[1])]
            IN times[Len(times)] = now'
       /\ (AfterFailedPost /\ variant = "Oinc" /\ nframes' > nframes) =>
            \E old \in Children(tree, LeafPath(tree).packet_size[1]),
               new \in Children(tree', LeafPath(tree).packet_size[1]) :
                    new.pps[1] = old.value + 1
      ]_vars

(* A failed notification is behind, and the same key was counted again. *)
C11_Witness ==
    /\ variant = "SimpleAE"
    /\ posted # << >>
    /\ ~posted[1].ok
    /\ posted[1].at < now
    /\ count >= 0
    /\ LastKey = posted[1].key
    /\ \E j \in 1 .. Len(count_map[LastKey]) :
            count_map[LastKey][j] = posted[1].at

(* C12: when the notifier call of an over-threshold observation raises,  *)
(* process_packet returns an error outcome, one that differs from what it *)
(* returns when no attack was detected (False for SimpleAE, None for      *)
(* Oinc).                                                                  *)
C12_FailureReported ==
    (variant \in Engines /\ AfterFailedPost) => ret \notin {"False", "None"}

(* C13: stop_sniffing is idempotent.  Whatever the capture loop is doing *)
(* (never started, running, already stopped), a call sets the flag, moves *)
(* nothing else (the loop's position, count_map, attack_map, the tree and *)
(* the posts made are untouched, nothing is raised), and a call made when *)
(* the flag is already set changes no part of the engine at all.          *)
StopCall == Len(stops') = Len(stops) + 1

C13_StopIdempotent ==
    [][StopCall =>
         /\ sniff_stop'
         /\ pc' = pc
         /\ UNCHANGED <<variant, packet_count, sample_interval, int_hops, now,
                        count_map, attack_map, tree, posted, pkt, int_data,
                        ret, count, over, seen, nframes, bound,
                        drop_table, report>>
         /\ sniff_stop => UNCHANGED sniff_stop
      ]_vars

(* stop was called twice, the second time on a loop already stopped, and  *)
(* the store still holds what the frames put in it.                        *)
C13_Witness ==
    /\ Len(stops) = 2
    /\ stops[2] = "stopped"
    /\ sniff_stop
    /\ count_map # << >>

(* C14: stopping is cooperative.  A frame handed to the callback is       *)
(* processed to completion, stop flag or not: leaving "prn" applies the   *)
(* handler's whole effect on the store and the posts.  The flag is looked *)
(* at only after a callback returned (the loop stops only from "filter",  *)
(* and only with the flag set), a loop that sees the flag set stops, and  *)
(* a frame reaches the callback only from a loop waiting for one.         *)
C14_CooperativeStop ==
    [][(variant \in Engines) =>
         /\ (pc = "prn" /\ pc' # "prn") =>
                \E ok \in BOOLEAN :
                   LET r == HandlePacket(variant, int_hops, pkt[1], now, ok,
                                         count_map, attack_map, tree,
                                         packet_count, sample_interval)
                   IN /\ count_map' = r.count_map
                      /\ attack_map' = r.attack_map
                      /\ tree' = r.tree
                      /\ posted' = posted \o r.posts
                      /\ ret' = r.ret
                      /\ pc' \in {"filter", "raised"}
         /\ (pc' = "stopped" /\ pc # "stopped") => (pc = "filter" /\ sniff_stop)
         /\ (pc = "filter" /\ sniff_stop /\ pc' # pc) => pc' = "stopped"
         /\ (pc' = "prn" /\ pc # "prn") =>
                (pc = "wait" /\ nframes' = nframes + 1)
         /\ (pc = "stopped" /\ pc' # pc) => (pc' = "wait" /\ bound' = AEBindings)
      ]_vars

(* stop was called while the callback was busy with a frame; that frame's *)
(* notification was made all the same, and then the loop stopped.          *)
C14_Witness ==
    /\ variant = "SimpleAE"
    /\ stops = <<"prn">>
    /\ pc = "stopped"
    /\ posted # << >>
    /\ posted[Len(posted)].at = now

(* C16: a hop count above three is fatal.  device_sniff raises before it  *)
(* starts the sniffer: no frame is received and the per-frame callback    *)
(* never runs.                                                             *)
C16_TooManyHopsFatal ==
    (variant = "device" /\ int_hops > 3) =>
        /\ pc \in {"idle", "raised"}
        /\ nframes = 0
        /\ pkt = None
        /\ int_data = None

C16_Witness == variant = "device" /\ int_hops = 4 /\ pc = "raised"

(* C17: the header chain follows the hop count.  Once device_sniff has   *)
(* started the sniffer, the layers bound from Ether down are IP, the shim, *)
(* the header and exactly int_hops hop records ending with SourceIntMeta  *)
(* (IntMeta1, IntMeta2, SourceIntMeta for 3; IntMeta2, SourceIntMeta for  *)
(* 2; SourceIntMeta for 1), then UDP; with 0 hops IP is bound straight to *)
(* UDP.  A telemetry frame carrying the whole chain yields a record, and  *)
(* every record holds the origin MAC and exactly int_hops switch ids.     *)
RECURSIVE Follow(_, _)
Follow(b, layer) ==
    LET next == {j \in 1 .. Len(b) : b[j][1] = layer}
    IN IF next = {} THEN <<layer>>
       ELSE <<layer>> \o Follow(b, b[CHOOSE j \in next : TRUE][2])

SwitchIds(d) ==
    {k \in {"switch_id_1", "switch_id_2", "switch_id_3"} : d[k] # PyNone}

C17_ChainFollowsHops ==
    (variant = "device" /\ pc \in {"wait", "prn"}) =>
        LET chain == Follow(bound, "Ether")
            hops == CASE int_hops = 1 -> <<"SourceIntMeta">>
                      [] int_hops = 2 -> <<"IntMeta2", "SourceIntMeta">>
                      [] int_hops = 3 -> <<"IntMeta1", "IntMeta2",
                                           "SourceIntMeta">>
                      [] OTHER -> << >>
        IN /\ \A j \in 1 .. Len(bound), k \in 1 .. Len(bound) :
                (j # k) => bound[j][1] # bound[k][1]
           /\ int_hops = 0 => chain = <<"Ether", "IP", "UDP">>
           /\ int_hops \in 1 .. 3 =>
                chain = <<"Ether", "IP", "IntShim", "IntHeader">> \o hops
                        \o <<"UDP">>
           /\ (/\ int_hops \in 1 .. 3 /\ pc = "wait" /\ pkt # None
               /\ pkt[1].proto = IpProtoTPS
               /\ pkt[1].layers = {chain[j] : j \in 1 .. Len(chain)}) =>
                int_data # None
           /\ (int_hops \in 1 .. 3 /\ int_data # None) =>
                /\ int_data[1].mac1 = PyStr(pkt[1].mac)
                /\ Cardinality(SwitchIds(int_data[1])) = int_hops

(* A three-hop telemetry frame was logged. *)
C17_Witness ==
    /\ variant = "device"
    /\ int_hops = 3
    /\ pc = "wait"
    /\ int_data # None
    /\ Cardinality(SwitchIds(int_data[1])) = 3

(* C15: the logging engines never detect.  LoggerAE.handle_packet and    *)
(* IntLoggerAE.process_packet return False on every frame, never call the *)
(* notifier and leave count_map and the rest of the flow state as the     *)
(* constructor made them.                                                  *)
C15_LoggersNeverDetect ==
    (variant \in {"IntLoggerAE", "LoggerAE"} /\ nframes > 0) =>
        /\ ret = "False"
        /\ posted = << >>
        /\ count_map = << >>
        /\ attack_map = << >>
        /\ tree = {RootNode}

(* IntLoggerAE has logged the telemetry data of several frames. *)
C15_Witness ==
    variant = "IntLoggerAE" /\ nframes = MaxFrames /\ int_data # None

(* C18: after every observation of a key by SimpleAE the key's stored     *)
(* timestamps hold no entry older than sample_interval at the observation *)
(* time, and the count the threshold is compared with is the number of    *)
(* timestamps left.                                                        *)
C18_PrunedAndCounted ==
    Observed =>
        LET times == count_map[LastKey]
        IN /\ \A j \in 1 .. Len(times) :
                now - times[j] <= sample_interval * TicksPerSec
           /\ count = Len(times)

(* C19: on the second observation of a record by Oinc its leaf is reset   *)
(* (count 1, window start now) exactly when more than the configured      *)
(* sample_interval seconds have passed since the window started at the    *)
(* first observation; otherwise the leaf counts 2 in the same window.     *)
C19_ResetAfterInterval ==
    (variant = "Oinc" /\ int_data # None /\ Len(LastSeen) = 2) =>
        \E n \in PathLeaves(tree, int_data[1]) :
            IF now - LastSeen[1] > sample_interval * TicksPerSec
            THEN n.value = 1 /\ n.time = now
            ELSE n.value = 2 /\ n.time = LastSeen[1]

(* C20: a frame without a network layer, or whose IP protocol is not      *)
(* ip_proto, makes SimpleAE.process_packet return False, call no notifier *)
(* and leave count_map and attack_map as they were.                       *)
C20_FilteredFrameNoEffect ==
    [][(/\ variant = "SimpleAE"
        /\ nframes' = nframes + 1
        /\ ("IP" \notin pkt'[1].layers \/ pkt'[1].proto # IpProtoTPS)) =>
            /\ ret' = "False"
            /\ UNCHANGED <<count_map, attack_map, posted>>
      ]_vars

(* A decodable frame of another protocol arrived at a SimpleAE that had   *)
(* already counted frames, and the counts are still there.                *)
C20_Witness ==
    /\ variant = "SimpleAE"
    /\ pkt = Some(OtherProtoFrame)
    /\ count_map # << >>
    /\ ret = "False"

(* C21: flows are isolated in SimpleAE.  An observation of record r      *)
(* touches the count_map and attack_map entries of key(r) only: every     *)
(* other key keeps its timestamp list and its last notification time, and *)
(* a post made carries key(r).  Identical records share one entry (an     *)
(* observation that repeats the previous record finds that record's       *)
(* timestamp under its key), and records that differ in any one of the    *)
(* seven fields, switchId and packetLen included, have different keys.    *)
(* The keys do not depend on the state, so they are compared at the first *)
(* observation of a run.                                                   *)
IsolationRecords ==
    LET r == extract_int_data(TelemetryFrame)[1]
    IN {r, [r EXCEPT !["devMac"] = PyStr("")],
        [r EXCEPT !["devAddr"] = PyStr("10.0.0.2")],
        [r EXCEPT !["switchId"] = PyInt(2)],
        [r EXCEPT !["dstAddr"] = PyStr("10.0.0.1")],
        [r EXCEPT !["dstPort"] = PyInt(5001)],
        [r EXCEPT !["protocol"] = PyInt(IpProtoTPS + 1)],
        [r EXCEPT !["packetLen"] = PyInt(128)]}

C21_FlowIsolation ==
    [][(variant = "SimpleAE" /\ count' >= 0 /\ nframes' = nframes + 1) =>
         LET key == AttackMapKey(int_data'[1])
         IN /\ DOMAIN count_map' = DOMAIN count_map \cup {key}
            /\ \A k \in DOMAIN count_map \ {key} : count_map'[k] = count_map[k]
            /\ DOMAIN attack_map \subseteq DOMAIN attack_map'
            /\ DOMAIN attack_map' \subseteq DOMAIN attack_map \cup {key}
            /\ \A k \in DOMAIN attack_map \ {key} :
                  attack_map'[k] = attack_map[k]
            /\ \A j \in Len(posted) + 1 .. Len(posted') : posted'[j].key = key
            /\ count_map'[key][Len(count_map'[key])] = now'
            /\ (count >= 0 /\ int_data' = int_data) =>
                  /\ key \in DOMAIN count_map
                  /\ count_map[key][Len(count_map[key])] = now
            /\ nframes = 0 =>
                  \A r1, r2 \in IsolationRecords :
                     (AttackMapKey(r1) = AttackMapKey(r2)) => r1 = r2
      ]_vars

(* Two records that differ in packetLen only have each been counted       *)
(* twice, under two keys.                                                  *)
C21_Witness ==
    /\ variant = "SimpleAE"
    /\ Cardinality(DOMAIN count_map) = 2
    /\ \A k \in DOMAIN count_map : Len(count_map[k]) >= 2

(* C22: stop is reached after at most one further frame.  Once the flag  *)
(* is set, a running loop only moves towards "stopped": a waiting loop    *)
(* receives one frame, the callback on that frame returns, stop_filter    *)
(* then sees the flag, and start_sniffing returns.                         *)
C22_StopReached ==
    [][(variant \in Engines /\ sniff_stop /\ pc' # pc) =>
         /\ pc = "wait" => pc' = "prn"
         /\ pc = "prn" => pc' = "filter"
         /\ pc = "filter" => pc' = "stopped"
      ]_vars

(* C23: the notifier is called at most once in the lifetime of a leaf.   *)
(* The attack flag of the leaf, once set, stays set through every later   *)
(* observation, the window reset included; a leaf whose flag is set makes *)
(* no post, and a post is made only on the step that sets the flag.       *)
LeafOf(t) == CHOOSE n \in Children(t, LeafPath(t).packet_size[1]) : TRUE

C23_NotifyOncePerLeaf ==
    [][(variant = "Oinc") =>
         /\ Len(posted') <= 1
         /\ LeafOf(tree).attack => (LeafOf(tree').attack /\ posted' = posted)
         /\ Len(posted') > Len(posted) =>
                (~LeafOf(tree).attack /\ LeafOf(tree').attack)
      ]_vars

(* The leaf was flagged and notified, and a later observation reset its   *)
(* window: the flag is still set and there is still one post.             *)
C23_Witness ==
    /\ variant = "Oinc"
    /\ Len(posted) = 1
    /\ posted[1].at < now
    /\ LeafOf(tree).attack
    /\ LeafOf(tree).value = 1
    /\ LeafOf(tree).time = now

(* C24: the last notification time of a key is set when the notifier is  *)
(* called and stays set when the call fails: after a failed post at time  *)
(* t the key's attack_map entry is t, and every over-threshold            *)
(* observation of that key up to one second after t makes no post,        *)
(* returns False and leaves attack_map alone.                              *)
C24_FailureStillDebounces ==
    [][(variant = "SimpleAE") =>
         /\ FailedPost =>
                LET k == posted'[Len(posted')].key
                IN k \in DOMAIN attack_map' /\ attack_map'[k] = now'
         /\ (/\ count' >= 0
             /\ over'
             /\ nframes' = nframes + 1
             /\ \E j \in 1 .. Len(posted) :
                    /\ posted[j].key = AttackMapKey(int_data'[1])
                    /\ ~posted[j].ok
                    /\ now' - posted[j].at <= MinRenotify * TicksPerSec) =>
                /\ posted' = posted
                /\ ret' = "False"
                /\ attack_map' = attack_map
      ]_vars

(* A notification failed, and an over-threshold observation of the same   *)
(* key within the next second was suppressed.                              *)
C24_Witness ==
    /\ Observed
    /\ over
    /\ ret = "False"
    /\ Len(posted) = 1
    /\ ~posted[1].ok
    /\ posted[1].key = LastKey
    /\ posted[1].at < now
    /\ now - posted[1].at <= MinRenotify * TicksPerSec

(* C25: nothing clears the stop flag.  Once stop_sniffing has been       *)
(* called the flag is set in every later state, start_sniffing included;  *)
(* a loop started or found with the flag set therefore receives one frame *)
(* at most: its callback is followed by stop_filter (or raises), which    *)
(* ends the run, and only a new start_sniffing brings the loop back to    *)
(* waiting.                                                                *)
C25_FlagNeverCleared ==
    [][(variant \in Engines) =>
         /\ sniff_stop => sniff_stop'
         /\ stops' # << >> => sniff_stop'
         /\ (sniff_stop /\ pc = "prn" /\ pc' # pc) => pc' \in {"filter", "raised"}
         /\ (sniff_stop /\ pc = "filter" /\ pc' # pc) => pc' = "stopped"
         /\ (sniff_stop /\ pc' = "wait" /\ pc # "wait") =>
                (pc \in {"idle", "stopped"} /\ nframes' = nframes)
      ]_vars

(* stop_sniffing was called before the first start_sniffing; the engine   *)
(* was then started twice, and each run returned after one frame.         *)
C25_Witness ==
    /\ stops = <<"idle">>
    /\ sniff_stop
    /\ nframes = 2
    /\ pc = "stopped"

(* C26: the entry add_attack installs matches on the destination        *)
(* address of the report: after add_attack of a report data_drop_t holds  *)
(* an entry whose metadata.dst_ipv4 (IPv4 dst_ip) or metadata.dst_ipv6    *)
(* (IPv6 dst_ip) is that address, with the report's source MAC and port;  *)
(* after stop_attack of a report no entry matches its address.            *)
MatchesReport(e, kwargs) ==
    /\ e.table_name = "data_drop_t"
    /\ e.match_fields["metadata.src_mac"] = PyStr(kwargs.src_mac)
    /\ e.match_fields["metadata.dst_port"] = PyInt(IntOf(kwargs.dst_port))
    /\ IpVersion(kwargs.dst_ip) = 4 =>
          e.match_fields["metadata.dst_ipv4"] = PyStr(kwargs.dst_ip)
    /\ IpVersion(kwargs.dst_ip) = 6 =>
          e.match_fields["metadata.dst_ipv6"] = PyStr(Exploded(kwargs.dst_ip))

C26_MatchOnDestination ==
    (report # None /\ ~report[1].raised) =>
        IF report[1].op = "add_attack"
        THEN \E e \in drop_table : MatchesReport(e, report[1].kwargs)
        ELSE ~\E e \in drop_table : MatchesReport(e, report[1].kwargs)

====
